---- MODULE Spec2Model ----
(***************************************************************************)
(* The contract store (contractStore.ts, second half of ContractView.tsx), *)
(* the lifecycle state machine it calls (utils/stateMachine.ts) and the    *)
(* blueprint store it snapshots from (stores/blueprintStore.ts).           *)
(*                                                                         *)
(* JavaScript arrays are reference values and Array.prototype.sort works   *)
(* in place, so field lists live in a heap of containers and the stores    *)
(* hold references to them.                                                *)
(***************************************************************************)
EXTENDS Integers, Sequences, FiniteSets, TLC

\* ------------------------------------------------------------------ bounds
MaxContracts == 2      \* most contracts generateId() hands an id to
MaxBlueprints == 2     \* most blueprints the blueprint store hands an id to
MaxTime == 1           \* last instant of the clock

\* ------------------------------------------------------------- state
VARIABLES
    contracts,     \* ContractState.contracts : Contract[]
    blueprints,    \* blueprint store : Blueprint[]
    heap,          \* field containers (arrays), by reference
    now,           \* the clock getCurrentTimestamp() reads
    nextId,        \* ids generateId() has handed out, plus one
    nextBlueprintId,
    ret,           \* what the last store call returned: "ok", "fail", "none"
    progress,      \* per contract id: how far along APPROVED, SENT, SIGNED it has been
    canCall,       \* last canTransition(from, to) call and its value
    validCall,     \* last getValidTransitions(from) call and its value
    searchCall,    \* last searchContracts(query) call and its value
    scenario,      \* which inputs the callers of the stores use in this run
    goal,          \* the status a caller is taking its contract to ("none": no such caller)
    page           \* ContractView: the contract on screen and the component's state

storeVars == <<contracts, blueprints, heap, now, nextId, nextBlueprintId, ret, progress>>
smVars == <<canCall, validCall, searchCall, scenario, goal>>
vars == <<contracts, blueprints, heap, now, nextId, nextBlueprintId, ret, progress,
          canCall, validCall, searchCall, scenario, goal, page>>

\* ------------------------------------------------------------- types
Status == {"CREATED", "APPROVED", "SENT", "SIGNED", "LOCKED", "REVOKED"}

Undefined == "undefined"
Null == "null"

Refs == 1..(MaxBlueprints + MaxContracts)
ContractIds == 1..MaxContracts
BlueprintIds == 1..MaxBlueprints

\* ------------------------------------------------- lifecycle state machine
VALID_TRANSITIONS ==
    [CREATED  |-> <<"APPROVED", "REVOKED">>,
     APPROVED |-> <<"SENT", "REVOKED", "CREATED">>,
     SENT     |-> <<"SIGNED", "REVOKED">>,
     SIGNED   |-> <<"LOCKED">>,
     LOCKED   |-> <<>>,
     REVOKED  |-> <<>>]

includes(arr, x) == \E i \in 1..Len(arr) : arr[i] = x

getValidTransitions(from) == VALID_TRANSITIONS[from]

\* faulty variant: staying in a status counts as a transition
canTransitionSelf(from, to) == from = to \/ includes(VALID_TRANSITIONS[from], to)

canTransition(from, to) == includes(VALID_TRANSITIONS[from], to)

\* ------------------------------------------------------------- helpers
IsSpace(ch) == ch = " "

RECURSIVE trimStart(_)
trimStart(s) ==
    IF s = <<>> THEN <<>>
    ELSE IF IsSpace(Head(s)) THEN trimStart(Tail(s)) ELSE s

RECURSIVE trimEnd(_)
trimEnd(s) ==
    IF s = <<>> THEN <<>>
    ELSE IF IsSpace(s[Len(s)]) THEN trimEnd(SubSeq(s, 1, Len(s) - 1)) ELSE s

\* String.prototype.trim
trim(s) == trimEnd(trimStart(s))

\* insertion of x into a list sorted by position, after its equals (stable)
RECURSIVE insertByPosition(_, _)
insertByPosition(x, sorted) ==
    IF sorted = <<>> THEN <<x>>
    ELSE IF x.position - Head(sorted).position < 0
         THEN <<x>> \o sorted
         ELSE <<Head(sorted)>> \o insertByPosition(x, Tail(sorted))

RECURSIVE sortFrom(_, _)
sortFrom(arr, acc) ==
    IF arr = <<>> THEN acc
    ELSE sortFrom(Tail(arr), insertByPosition(Head(arr), acc))

\* arr.sort((a, b) => a.position - b.position): stable, ascending
sortByPosition(arr) == sortFrom(arr, <<>>)

\* contracts.find((c) => c.id === id), as an index into the list (0: undefined)
indexOf(list, id) ==
    IF \E i \in 1..Len(list) : list[i].id = id
    THEN CHOOSE i \in 1..Len(list) :
             list[i].id = id /\ \A j \in 1..(i - 1) : list[j].id # id
    ELSE 0

getContract(id) == indexOf(contracts, id)

getBlueprint(id) == indexOf(blueprints, id)

getCurrentTimestamp == now

\* ------------------------------------------------------ dashboard projection
DashboardFilters == {"active", "pending", "signed", "archived"}

getStatusesForFilter(filter) ==
    [active   |-> <<"CREATED", "APPROVED">>,
     pending  |-> <<"SENT">>,
     signed   |-> <<"SIGNED", "LOCKED">>,
     archived |-> <<"REVOKED">>][filter]

\* faulty variant: only the first status of a bucket is looked for
getContractsByFilterFirst(filter) ==
    LET statuses == getStatusesForFilter(filter)
    IN  SelectSeq(contracts, LAMBDA c : statuses[1] = c.status)

getContractsByFilter(filter) ==
    LET statuses == getStatusesForFilter(filter)
    IN  SelectSeq(contracts, LAMBDA c : includes(statuses, c.status))

\* ------------------------------------------------------------- the heap
UsedRefs(bps, cs) ==
    {bps[i].fields : i \in 1..Len(bps)} \cup {cs[i].fields : i \in 1..Len(cs)}

\* a container no store refers to: the owner's own slot when it is free
NewRef(slot, bps, cs) ==
    IF slot \notin UsedRefs(bps, cs) THEN slot
    ELSE CHOOSE r \in Refs \ UsedRefs(bps, cs) :
             \A q \in Refs \ UsedRefs(bps, cs) : r <= q

blueprintSlot(id) == id
contractSlot(id) == MaxBlueprints + id

\* containers no store refers to are gone
Collect(h, bps, cs) ==
    [r \in Refs |-> IF r \in UsedRefs(bps, cs) THEN h[r] ELSE <<>>]

FieldsOf(c) == heap[c.fields]

\* ------------------------------------------------------------- inputs
bf(id, type, label, position, required, editableBy, placeholder, defaultChecked) ==
    [id |-> id, type |-> type, label |-> label, position |-> position,
     required |-> required, editableBy |-> editableBy,
     placeholder |-> placeholder, defaultChecked |-> defaultChecked,
     value |-> Undefined]

FName == bf("f1", "TEXT", "Name", 0, TRUE, "manager", "Your name", Undefined)
FSign == bf("f2", "SIGNATURE", "Sign", 1, TRUE, "client", Undefined, Undefined)
FAgree == bf("f3", "CHECKBOX", "Agree", 0, FALSE, "both", Undefined, "true")
FOpt == bf("f4", "CHECKBOX", "Opt", 1, FALSE, Undefined, Undefined, Undefined)
FRelabelled == [FName EXCEPT !.label = "Full name"]
FNoLabel == [FName EXCEPT !.label = ""]
FDate == bf("f5", "DATE", "Date", 5, FALSE, "manager", Undefined, Undefined)

\* The callers' inputs come in four scenarios, fixed for a run.  Each explores
\* one dimension in depth and keeps the others small:
\*   "pair"       several contracts side by side; the clock stands still and
\*                an edit hands back the list the contract has
\*   "lifecycle"  one contract, every field edit, a running clock
\*   "snapshot"   one contract, every blueprint edit and field move
\*   "library"    several blueprints, one contract, the clock stands still
\* The others belong to the specifications further down:
\*   "drive"      one contract and a caller taking it to a status, a running clock
\*   "page"       one contract, opened in ContractView
\*   "sign"       one contract, opened in ContractView with its "Sign Contract"
\*                modal put on screen; the contract is edited on the page only
\*   "search"     several contracts with longer names, and queries
\*   "move"       several blueprints of up to three fields, and field moves;
\*                no contracts
Scenarios == {"pair", "lifecycle", "snapshot", "library"}

\* contracts generateId() hands an id to in this run
ContractCap == IF scenario \in {"pair", "search"} THEN MaxContracts ELSE 1

\* blueprints the blueprint store hands an id to in this run
BlueprintCap == IF scenario \in {"library", "move"} THEN MaxBlueprints ELSE 1

\* last instant of the clock in this run
TimeCap ==
    IF scenario \in {"lifecycle", "drive"} THEN MaxTime
    ELSE IF scenario = "snapshot" THEN 1
    ELSE 0

\* field lists handed to createBlueprint
BlueprintFieldLists ==
    IF scenario \in {"snapshot", "page", "sign"}
    THEN { <<FSign, FName>>, <<FAgree, FOpt>>, <<FNoLabel>> }
    ELSE IF scenario = "move"
    THEN { <<FDate, FSign, FName>>, <<FName, FDate>>, <<FAgree, FOpt>>, <<FNoLabel>> }
    ELSE { <<FSign, FName>>, <<FNoLabel>> }

\* names handed to the stores, as lists of characters
NameInputs ==
    IF scenario = "search" THEN { <<"N", "d", "A">>, <<"a", "b">> }
    ELSE { <<>>, <<" ">>, <<" ", "N", " ">> }
BlueprintNames ==
    IF scenario = "search" THEN { <<"T", " ", "n", "D", "a">>, <<"X">> }
    ELSE { <<" ">>, <<"T">> }

\* what is typed into the dashboard's search box
Queries ==
    { <<>>, <<"n", "d", "a">>, <<"D", "A">>, <<"b">>, <<"x">>, <<"d", "a", "t">> }

\* values a caller writes into a field
NewValues(f) ==
    IF f.type = "CHECKBOX" THEN {"true", "false"}
    ELSE IF f.type = "SIGNATURE" THEN {"s:sig"}
    ELSE {"s:x"}

\* field lists handed to updateContractFields for a contract whose list is cur:
\* cur with one value changed, and cur without its first field; in "page" these
\* are the calls of code other than ContractView, which write "s:api"
ContractFieldLists(cur) ==
    IF scenario = "page"
    THEN { [cur EXCEPT ![k] = [@ EXCEPT !.value = "s:api"]] : k \in 1..Len(cur) }
    ELSE IF scenario = "lifecycle"
    THEN UNION { { [cur EXCEPT ![k] = [@ EXCEPT !.value = v]] : v \in NewValues(cur[k]) } :
                 k \in 1..Len(cur) }
         \cup { IF cur = <<>> THEN <<>> ELSE Tail(cur) }
    ELSE IF scenario = "snapshot" /\ cur # <<>>
    THEN { [cur EXCEPT ![1] = [@ EXCEPT !.value = v]] : v \in NewValues(cur[1]) }
    ELSE { cur }

\* ContractView's useState values before the page is opened; id 0: no page
NoPage ==
    [id |-> 0,
     showDeleteModal |-> FALSE,
     showTransitionModal |-> Null,
     showSendModal |-> FALSE,
     showSignModal |-> FALSE,
     recipientEmail |-> <<>>,
     modalSignature |-> Null,
     toast |-> [message |-> "", recipient |-> <<>>]]

\* ------------------------------------------------------------- Init
Init ==
    /\ contracts = <<>>
    /\ blueprints = <<>>
    /\ heap = [r \in Refs |-> <<>>]
    /\ now = 0
    /\ nextId = 1
    /\ nextBlueprintId = 1
    /\ ret = "none"
    /\ progress = [i \in ContractIds |-> 0]
    /\ canCall = [from |-> "none", to |-> "none", value |-> FALSE]
    /\ validCall = [from |-> "none", value |-> <<>>]
    /\ searchCall = [called |-> FALSE, query |-> <<>>, value |-> <<>>]
    /\ scenario \in Scenarios
    /\ goal = "none"
    /\ page = NoPage

\* a store call that returns without set()
Returns(value) ==
    /\ ret' = value
    /\ UNCHANGED <<contracts, blueprints, heap, now, nextId, nextBlueprintId, progress>>
    /\ UNCHANGED smVars

\* ------------------------------------------------------ contract store
\* faulty variant: a checkbox starts unchecked whatever the blueprint says
snapshotFieldUnchecked(f) ==
    [id |-> f.id, type |-> f.type, label |-> f.label, position |-> f.position,
     required |-> f.required, editableBy |-> f.editableBy,
     placeholder |-> f.placeholder, defaultChecked |-> Undefined,
     value |-> IF f.type = "CHECKBOX" THEN "false" ELSE Null]

\* one ContractField for a blueprint field
snapshotField(f) ==
    [id |-> f.id, type |-> f.type, label |-> f.label, position |-> f.position,
     required |-> f.required, editableBy |-> f.editableBy,
     placeholder |-> f.placeholder, defaultChecked |-> Undefined,
     value |-> IF f.type = "CHECKBOX"
               THEN (IF f.defaultChecked = Undefined THEN "false" ELSE f.defaultChecked)
               ELSE Null]

\* set(): the new contract goes to the end of the list, its fields into container ref
addContract(name, blueprint, ref, fields) ==
    LET contract == [id |-> nextId,
                     name |-> trim(name),
                     blueprintId |-> blueprint.id,
                     blueprintName |-> blueprint.name,
                     status |-> "CREATED",
                     fields |-> ref,
                     createdAt |-> getCurrentTimestamp,
                     updatedAt |-> getCurrentTimestamp]
    IN  /\ nextId <= ContractCap
        /\ contracts' = Append(contracts, contract)
        /\ heap' = [heap EXCEPT ![blueprint.fields] = sortByPosition(heap[blueprint.fields]),
                                ![ref] = fields]
        /\ nextId' = nextId + 1
        /\ progress' = [progress EXCEPT ![nextId] = 0]
        /\ ret' = "ok"
        /\ UNCHANGED <<blueprints, now, nextBlueprintId>>
        /\ UNCHANGED smVars

\* the blueprint's fields in position order, one ContractField for each
snapshot(blueprint) ==
    LET sorted == sortByPosition(heap[blueprint.fields])
    IN  [k \in 1..Len(sorted) |-> snapshotField(sorted[k])]

\* faulty variant: the contract keeps the blueprint's own sorted array
createContractShared(name, blueprintId) ==
    LET b == getBlueprint(blueprintId) IN
    IF trim(name) = <<>> THEN Returns("fail")
    ELSE IF b = 0 THEN Returns("fail")
    ELSE addContract(name, blueprints[b], blueprints[b].fields,
                     sortByPosition(heap[blueprints[b].fields]))

\* faulty variant: only the empty name is refused
createContractNoTrim(name, blueprintId) ==
    LET b == getBlueprint(blueprintId) IN
    IF name = <<>> THEN Returns("fail")
    ELSE IF b = 0 THEN Returns("fail")
    ELSE addContract(name, blueprints[b],
                     NewRef(contractSlot(nextId), blueprints, contracts),
                     snapshot(blueprints[b]))

createContract(name, blueprintId) ==
    LET b == getBlueprint(blueprintId) IN
    IF trim(name) = <<>> THEN Returns("fail")
    ELSE IF b = 0 THEN Returns("fail")
    ELSE addContract(name, blueprints[b],
                     NewRef(contractSlot(nextId), blueprints, contracts),
                     snapshot(blueprints[b]))

\* set(): the contract with this id gets the caller's array and a new updatedAt
setFields(id, updatedFields) ==
    LET others == [j \in 1..Len(contracts) |->
                      IF contracts[j].id = id
                      THEN [contracts[j] EXCEPT !.fields = 0]
                      ELSE contracts[j]]
        ref == NewRef(contractSlot(id), blueprints, others)
        updated == [j \in 1..Len(contracts) |->
                      IF contracts[j].id = id
                      THEN [contracts[j] EXCEPT !.fields = ref,
                                                !.updatedAt = getCurrentTimestamp]
                      ELSE contracts[j]]
    IN  /\ contracts' = updated
        /\ heap' = Collect([heap EXCEPT ![ref] = updatedFields], blueprints, updated)
        /\ ret' = "ok"
        /\ UNCHANGED <<blueprints, now, nextId, nextBlueprintId, progress>>
        /\ UNCHANGED smVars

\* faulty variant: only the terminal statuses refuse an edit
updateContractFieldsUnlessTerminal(id, updatedFields) ==
    LET i == getContract(id) IN
    IF i = 0 THEN Returns("fail")
    ELSE IF contracts[i].status = "LOCKED" \/ contracts[i].status = "REVOKED"
    THEN Returns("fail")
    ELSE setFields(id, updatedFields)

\* faulty variant: the manager may still edit an approved contract
updateContractFieldsApproved(id, updatedFields) ==
    LET i == getContract(id) IN
    IF i = 0 THEN Returns("fail")
    ELSE IF contracts[i].status # "CREATED" /\ contracts[i].status # "APPROVED"
            /\ contracts[i].status # "SENT"
    THEN Returns("fail")
    ELSE setFields(id, updatedFields)

updateContractFields(id, updatedFields) ==
    LET i == getContract(id) IN
    IF i = 0 THEN Returns("fail")
    ELSE
        LET isManagerEditable == contracts[i].status = "CREATED"
            isClientEditable == contracts[i].status = "SENT"
        IN  IF ~isManagerEditable /\ ~isClientEditable THEN Returns("fail")
            ELSE setFields(id, updatedFields)

\* how far along APPROVED, SENT, SIGNED a contract has been, after entering status
advance(stage, status) ==
    IF      stage = 0 /\ status = "APPROVED" THEN 1
    ELSE IF stage = 1 /\ status = "SENT" THEN 2
    ELSE IF stage = 2 /\ status = "SIGNED" THEN 3
    ELSE stage

\* faulty variant: the status is written, updatedAt is not
setStatusOnly(id, newStatus) ==
    /\ contracts' = [j \in 1..Len(contracts) |->
                        IF contracts[j].id = id
                        THEN [contracts[j] EXCEPT !.status = newStatus]
                        ELSE contracts[j]]
    /\ progress' = [progress EXCEPT ![id] = advance(@, newStatus)]
    /\ ret' = "ok"
    /\ UNCHANGED <<blueprints, heap, now, nextId, nextBlueprintId>>
    /\ UNCHANGED smVars

\* set(): the contract with this id gets the status and a new updatedAt
setStatus(id, newStatus) ==
    /\ contracts' = [j \in 1..Len(contracts) |->
                        IF contracts[j].id = id
                        THEN [contracts[j] EXCEPT !.status = newStatus,
                                                  !.updatedAt = getCurrentTimestamp]
                        ELSE contracts[j]]
    /\ progress' = [progress EXCEPT ![id] = advance(@, newStatus)]
    /\ ret' = "ok"
    /\ UNCHANGED <<blueprints, heap, now, nextId, nextBlueprintId>>
    /\ UNCHANGED smVars

LIFECYCLE_STEPS == <<"CREATED", "APPROVED", "SENT", "SIGNED", "LOCKED">>

\* LIFECYCLE_STEPS.indexOf(status), from 1; 0 when it is not a step
stepIndex(status) ==
    IF includes(LIFECYCLE_STEPS, status)
    THEN CHOOSE k \in 1..Len(LIFECYCLE_STEPS) : LIFECYCLE_STEPS[k] = status
    ELSE 0

\* faulty variant: SIGNED is taken for a final status
transitionStatusSignedFinal(id, newStatus) ==
    LET i == getContract(id) IN
    IF i = 0 THEN Returns("fail")
    ELSE IF contracts[i].status = "SIGNED" \/ ~canTransition(contracts[i].status, newStatus)
    THEN Returns("fail")
    ELSE setStatus(id, newStatus)

\* faulty variant: a sent contract can be taken back for another approval
transitionStatusRecall(id, newStatus) ==
    LET i == getContract(id) IN
    IF i = 0 THEN Returns("fail")
    ELSE IF ~canTransition(contracts[i].status, newStatus)
            /\ ~(contracts[i].status = "SENT" /\ newStatus = "APPROVED")
    THEN Returns("fail")
    ELSE setStatus(id, newStatus)

\* faulty variant: a signed contract can still be revoked
transitionStatusRevokeSigned(id, newStatus) ==
    LET i == getContract(id) IN
    IF i = 0 THEN Returns("fail")
    ELSE IF ~canTransition(contracts[i].status, newStatus)
            /\ ~(contracts[i].status = "SIGNED" /\ newStatus = "REVOKED")
    THEN Returns("fail")
    ELSE setStatus(id, newStatus)

\* faulty variant: no validation
transitionStatusUnchecked(id, newStatus) ==
    IF getContract(id) = 0 THEN Returns("fail") ELSE setStatus(id, newStatus)

\* faulty variant: any later step of the lifecycle is accepted
transitionStatusForward(id, newStatus) ==
    LET i == getContract(id) IN
    IF i = 0 THEN Returns("fail")
    ELSE IF ~canTransition(contracts[i].status, newStatus)
            /\ ~(stepIndex(contracts[i].status) # 0
                 /\ stepIndex(newStatus) > stepIndex(contracts[i].status))
    THEN Returns("fail")
    ELSE setStatus(id, newStatus)

\* faulty variant: a refused transition still counts as an update
transitionStatusTouch(id, newStatus) ==
    LET i == getContract(id) IN
    IF i = 0 THEN Returns("fail")
    ELSE IF ~canTransition(contracts[i].status, newStatus)
    THEN /\ contracts' = [contracts EXCEPT ![i] = [@ EXCEPT !.updatedAt = getCurrentTimestamp]]
         /\ ret' = "fail"
         /\ UNCHANGED <<blueprints, heap, now, nextId, nextBlueprintId, progress>>
         /\ UNCHANGED smVars
    ELSE setStatus(id, newStatus)

transitionStatus(id, newStatus) ==
    LET i == getContract(id) IN
    IF i = 0 THEN Returns("fail")
    ELSE IF ~canTransition(contracts[i].status, newStatus) THEN Returns("fail")
    ELSE setStatus(id, newStatus)

keepOthers(id, c) == c.id # id

\* ------------------------------------- two store calls in one handler
\* The store as a handler sees it between its calls: what the second call of
\* a handler reads is what the first has set().
storeNow == [contracts |-> contracts, heap |-> heap, ret |-> ret, progress |-> progress]

\* updateContractFields (lines 485-512) on the store st
updateContractFieldsIn(st, id, updatedFields) ==
    LET i == indexOf(st.contracts, id) IN
    IF i = 0 THEN [st EXCEPT !.ret = "fail"]
    ELSE
        LET isManagerEditable == st.contracts[i].status = "CREATED"
            isClientEditable == st.contracts[i].status = "SENT"
            others == [j \in 1..Len(st.contracts) |->
                          IF st.contracts[j].id = id
                          THEN [st.contracts[j] EXCEPT !.fields = 0]
                          ELSE st.contracts[j]]
            ref == NewRef(contractSlot(id), blueprints, others)
            updated == [j \in 1..Len(st.contracts) |->
                          IF st.contracts[j].id = id
                          THEN [st.contracts[j] EXCEPT !.fields = ref,
                                                       !.updatedAt = getCurrentTimestamp]
                          ELSE st.contracts[j]]
        IN  IF ~isManagerEditable /\ ~isClientEditable THEN [st EXCEPT !.ret = "fail"]
            ELSE [st EXCEPT !.contracts = updated,
                            !.heap = Collect([st.heap EXCEPT ![ref] = updatedFields],
                                             blueprints, updated),
                            !.ret = "ok"]

\* transitionStatus (lines 514-541) on the store st
transitionStatusIn(st, id, newStatus) ==
    LET i == indexOf(st.contracts, id) IN
    IF i = 0 THEN [st EXCEPT !.ret = "fail"]
    ELSE IF ~canTransition(st.contracts[i].status, newStatus) THEN [st EXCEPT !.ret = "fail"]
    ELSE [st EXCEPT !.contracts = [j \in 1..Len(st.contracts) |->
                                      IF st.contracts[j].id = id
                                      THEN [st.contracts[j] EXCEPT
                                               !.status = newStatus,
                                               !.updatedAt = getCurrentTimestamp]
                                      ELSE st.contracts[j]],
                    !.progress = [st.progress EXCEPT ![id] = advance(@, newStatus)],
                    !.ret = "ok"]

\* the handler is over: the store is st
becomes(st) ==
    /\ contracts' = st.contracts
    /\ heap' = st.heap
    /\ ret' = st.ret
    /\ progress' = st.progress
    /\ UNCHANGED <<blueprints, now, nextId, nextBlueprintId>>
    /\ UNCHANGED smVars

\* String.prototype.toLowerCase, on the letters names and queries are made of
toLowerCase(str) ==
    LET capitals == <<"A", "B", "D", "N", "T", "X">>
        small == <<"a", "b", "d", "n", "t", "x">>
    IN  [k \in 1..Len(str) |->
            IF \E n \in 1..Len(capitals) : capitals[n] = str[k]
            THEN small[CHOOSE n \in 1..Len(capitals) : capitals[n] = str[k]]
            ELSE str[k]]

\* String.prototype.includes
stringIncludes(str, q) ==
    \E start \in 0..(Len(str) - Len(q)) : SubSeq(str, start + 1, start + Len(q)) = q

\* faulty variant: the query is compared as it was typed
searchContractsAsTyped(query) ==
    SelectSeq(contracts,
              LAMBDA c : \/ stringIncludes(toLowerCase(c.name), query)
                         \/ stringIncludes(toLowerCase(c.blueprintName), query))

searchContracts(query) ==
    LET q == toLowerCase(query)
    IN  SelectSeq(contracts,
                  LAMBDA c : \/ stringIncludes(toLowerCase(c.name), q)
                             \/ stringIncludes(toLowerCase(c.blueprintName), q))

\* faulty variant: a locked contract is kept
deleteContractUnlessLocked(id) ==
    LET exists == \E i \in 1..Len(contracts) :
                      contracts[i].id = id /\ contracts[i].status # "LOCKED" IN
    IF exists
    THEN LET kept == SelectSeq(contracts, LAMBDA c : keepOthers(id, c)) IN
         /\ contracts' = kept
         /\ heap' = Collect(heap, blueprints, kept)
         /\ ret' = "ok"
         /\ UNCHANGED <<blueprints, now, nextId, nextBlueprintId, progress>>
         /\ UNCHANGED smVars
    ELSE Returns("fail")

deleteContract(id) ==
    LET exists == \E i \in 1..Len(contracts) : contracts[i].id = id IN
    IF exists
    THEN LET kept == SelectSeq(contracts, LAMBDA c : keepOthers(id, c)) IN
         /\ contracts' = kept
         /\ heap' = Collect(heap, blueprints, kept)
         /\ ret' = "ok"
         /\ UNCHANGED <<blueprints, now, nextId, nextBlueprintId, progress>>
         /\ UNCHANGED smVars
    ELSE Returns("fail")

\* ------------------------------------------------------ blueprint store
validBlueprint(name, fields) ==
    /\ trim(name) # <<>>
    /\ \A k \in 1..Len(fields) : fields[k].label # ""

createBlueprint(name, fields) ==
    IF ~validBlueprint(name, fields) THEN UNCHANGED vars
    ELSE
        LET ref == NewRef(blueprintSlot(nextBlueprintId), blueprints, contracts)
            blueprint == [id |-> nextBlueprintId, name |-> name, fields |-> ref]
        IN  /\ nextBlueprintId <= BlueprintCap
            /\ blueprints' = Append(blueprints, blueprint)
            /\ heap' = [heap EXCEPT ![ref] = fields]
            /\ nextBlueprintId' = nextBlueprintId + 1
            /\ UNCHANGED <<contracts, now, nextId, ret, progress>>
            /\ UNCHANGED smVars

\* The blueprint at index b gets the field list fields, written into the
\* container it has (inPlace) or into a new one.
storeBlueprintFields(b, name, fields, inPlace) ==
    LET others == [j \in 1..Len(blueprints) |->
                      IF j = b THEN [blueprints[j] EXCEPT !.fields = 0]
                      ELSE blueprints[j]]
        ref == IF inPlace THEN blueprints[b].fields
               ELSE NewRef(blueprintSlot(blueprints[b].id), others, contracts)
        updated == [blueprints EXCEPT ![b] = [@ EXCEPT !.name = name, !.fields = ref]]
    IN  /\ blueprints' = updated
        /\ heap' = Collect([heap EXCEPT ![ref] = fields], updated, contracts)
        /\ UNCHANGED <<contracts, now, nextId, nextBlueprintId, ret, progress>>
        /\ UNCHANGED smVars

\* patch: [kind, name, fields], kind one of "name", "fields", "both"
updateBlueprint(id, patch, inPlace) ==
    LET b == getBlueprint(id) IN
    IF b = 0 THEN UNCHANGED vars
    ELSE IF patch.kind = "name"
    THEN /\ blueprints' = [blueprints EXCEPT ![b] = [@ EXCEPT !.name = patch.name]]
         /\ UNCHANGED <<contracts, heap, now, nextId, nextBlueprintId, ret, progress>>
         /\ UNCHANGED smVars
    ELSE storeBlueprintFields(
             b,
             IF patch.kind = "both" THEN patch.name ELSE blueprints[b].name,
             patch.fields,
             inPlace)

\* index in arr of the field with this id (0: none)
fieldIndex(arr, fieldId) ==
    IF \E k \in 1..Len(arr) : arr[k].id = fieldId
    THEN CHOOSE k \in 1..Len(arr) :
             arr[k].id = fieldId /\ \A j \in 1..(k - 1) : arr[j].id # fieldId
    ELSE 0

\* faulty variant: the neighbour keeps the position it has
swapPositionsOneWay(arr, k, n) ==
    [j \in 1..Len(arr) |->
        IF j = k THEN [arr[j] EXCEPT !.position = arr[n].position]
        ELSE arr[j]]

\* arr with the positions of the fields at indices k and n exchanged
swapPositions(arr, k, n) ==
    [j \in 1..Len(arr) |->
        IF j = k THEN [arr[j] EXCEPT !.position = arr[n].position]
        ELSE IF j = n THEN [arr[j] EXCEPT !.position = arr[k].position]
        ELSE arr[j]]

moveField(blueprintId, fieldId, direction, inPlace) ==
    LET b == getBlueprint(blueprintId) IN
    IF b = 0 THEN UNCHANGED vars
    ELSE
        LET arr == heap[blueprints[b].fields]
            order == sortByPosition(arr)
            k == fieldIndex(order, fieldId)
            n == IF direction = "up" THEN k - 1 ELSE k + 1
        IN  IF k = 0 \/ n < 1 \/ n > Len(order) THEN UNCHANGED vars
            ELSE storeBlueprintFields(
                     b, blueprints[b].name,
                     swapPositions(arr, fieldIndex(arr, fieldId),
                                   fieldIndex(arr, order[n].id)),
                     inPlace)

deleteBlueprint(id) ==
    LET kept == SelectSeq(blueprints, LAMBDA b : keepOthers(id, b)) IN
    /\ blueprints' = kept
    /\ heap' = Collect(heap, kept, contracts)
    /\ UNCHANGED <<contracts, now, nextId, nextBlueprintId, ret, progress>>
    /\ UNCHANGED smVars

\* ------------------------------------------------------------- the clock
Tick ==
    /\ now < TimeCap
    /\ now' = now + 1
    /\ UNCHANGED <<contracts, blueprints, heap, nextId, nextBlueprintId, ret, progress>>
    /\ UNCHANGED smVars
    /\ UNCHANGED page

\* ------------------------------------------------------------- callers
BlueprintPatches ==
    IF scenario = "pair" THEN {}
    ELSE IF scenario = "search"
    THEN [kind : {"name"}, name : {<<"X">>}, fields : {<<>>}]
    ELSE IF scenario \in {"lifecycle", "library"}
    THEN [kind : {"name"}, name : {<<"U">>}, fields : {<<>>}]
    ELSE [kind : {"name"}, name : {<<"T">>, <<"U">>}, fields : {<<>>}]
         \cup [kind : {"fields"}, name : {<<>>},
               fields : {<<FRelabelled, FSign>>, <<FName>>}]
         \cup [kind : {"both"}, name : {<<"U">>}, fields : {<<FAgree, FOpt>>}]

FieldIdInputs ==
    IF scenario = "snapshot" THEN {"f1", "f2", "f9"}
    ELSE IF scenario = "move" THEN {"f1", "f2", "f5"}
    ELSE {"f9"}

CreateContract ==
    \E name \in NameInputs, blueprintId \in 1..(BlueprintCap + 1) :
        createContract(name, blueprintId) /\ UNCHANGED page

UpdateContractFields ==
    \E id \in 1..(ContractCap + 1) :
        \E fields \in (IF getContract(id) = 0 THEN {<<>>}
                       ELSE ContractFieldLists(FieldsOf(contracts[getContract(id)]))) :
            updateContractFields(id, fields) /\ UNCHANGED page

TransitionStatus ==
    \E id \in 1..(ContractCap + 1), newStatus \in Status :
        transitionStatus(id, newStatus) /\ UNCHANGED page

DeleteContract ==
    \E id \in 1..(ContractCap + 1) : deleteContract(id) /\ UNCHANGED page

CreateBlueprint ==
    \E name \in BlueprintNames, fields \in BlueprintFieldLists :
        createBlueprint(name, fields) /\ UNCHANGED page

UpdateBlueprint ==
    \E id \in 1..(BlueprintCap + 1), patch \in BlueprintPatches, inPlace \in BOOLEAN :
        updateBlueprint(id, patch, inPlace) /\ UNCHANGED page

MoveField ==
    \E id \in 1..(BlueprintCap + 1), fieldId \in FieldIdInputs,
       direction \in {"up", "down"}, inPlace \in BOOLEAN :
        moveField(id, fieldId, direction, inPlace) /\ UNCHANGED page

DeleteBlueprint ==
    \E id \in 1..(BlueprintCap + 1) : deleteBlueprint(id) /\ UNCHANGED page

Next ==
    \/ CreateContract
    \/ UpdateContractFields
    \/ TransitionStatus
    \/ DeleteContract
    \/ CreateBlueprint
    \/ UpdateBlueprint
    \/ MoveField
    \/ DeleteBlueprint
    \/ Tick

Spec == Init /\ [][Next]_vars

\* ------------------------------------------- the state machine on its own
CallCanTransition ==
    \E from \in Status, to \in Status :
        /\ canCall' = [from |-> from, to |-> to, value |-> canTransition(from, to)]
        /\ UNCHANGED <<validCall, searchCall, scenario, goal, page>>
        /\ UNCHANGED storeVars

CallGetValidTransitions ==
    \E from \in Status :
        /\ validCall' = [from |-> from, value |-> getValidTransitions(from)]
        /\ UNCHANGED <<canCall, searchCall, scenario, goal, page>>
        /\ UNCHANGED storeVars

NextSM == CallCanTransition \/ CallGetValidTransitions

SpecSM == Init /\ [][NextSM]_vars

\* ------------------------------------------------------------- ContractView
\* const contract = id ? getContract(id) : undefined, as an index (0: not found)
contractOnPage == IF page.id = 0 THEN 0 ELSE getContract(page.id)

validTransitions == getValidTransitions(contracts[contractOnPage].status)

isManagerField(field) ==
    \/ field.editableBy = Undefined
    \/ field.editableBy = "manager"
    \/ field.editableBy = "both"

isClientField(field) == field.editableBy = "client" \/ field.editableBy = "both"

\* faulty variant: what the manager may fill in stays open once the contract is sent
isDisabledForManager(field) ==
    LET status == contracts[contractOnPage].status IN
    IF status = "CREATED" \/ status = "SENT" THEN ~isManagerField(field)
    ELSE TRUE

\* renderField: whether the field's control is shown disabled
isDisabled(field) ==
    LET status == contracts[contractOnPage].status IN
    IF status = "CREATED" THEN ~isManagerField(field)
    ELSE IF status = "SENT" THEN ~isClientField(field)
    ELSE TRUE

\* what the control of a field hands to handleFieldChange
Typed(field) ==
    IF field.type = "CHECKBOX"
    THEN {IF field.value = "true" THEN "false" ELSE "true"}
    ELSE IF field.type = "SIGNATURE" THEN {"s:sig", Null}
    ELSE {"s:x", "s:"}

\* faulty variant: the other fields are left out of the list
changedFieldsOnly(fields, fieldId, value) ==
    LET hit == SelectSeq(fields, LAMBDA f : f.id = fieldId)
    IN  [k \in 1..Len(hit) |-> [hit[k] EXCEPT !.value = value]]

\* the list handleFieldChange hands to updateContractFields
changedFields(fields, fieldId, value) ==
    [k \in 1..Len(fields) |->
        IF fields[k].id = fieldId
        THEN [fields[k] EXCEPT !.value = value]
        ELSE fields[k]]

handleFieldChange(fieldId, value) ==
    LET c == contracts[contractOnPage]
        updatedFields == changedFields(FieldsOf(c), fieldId, value)
    IN  updateContractFields(c.id, updatedFields)

toastMessages ==
    [CREATED  |-> "Contract reverted to draft.",
     APPROVED |-> "Contract approved.",
     SENT     |-> "Contract sent to client.",
     SIGNED   |-> "Contract signed.",
     LOCKED   |-> "Contract locked and archived.",
     REVOKED  |-> "Contract revoked."]

\* what showToast puts on the screen; recipient: the address a template quotes
toastOf(message, recipient) == [message |-> message, recipient |-> recipient]

handleTransition(newStatus) ==
    /\ transitionStatus(contracts[contractOnPage].id, newStatus)
    /\ page' = [page EXCEPT !.showTransitionModal = Null,
                            !.toast = toastOf(toastMessages[newStatus], <<>>)]

handleSendContract ==
    IF trim(page.recipientEmail) = <<>> THEN UNCHANGED vars
    ELSE /\ transitionStatus(contracts[contractOnPage].id, "SENT")
         /\ page' = [page EXCEPT !.showSendModal = FALSE,
                                 !.toast = toastOf("Email sent to (simulated).",
                                                   page.recipientEmail),
                                 !.recipientEmail = <<>>]

\* contract.fields.find((f) => f.type === 'SIGNATURE'), as an index (0: undefined)
findSignature(fields) ==
    IF \E k \in 1..Len(fields) : fields[k].type = "SIGNATURE"
    THEN CHOOSE k \in 1..Len(fields) :
             /\ fields[k].type = "SIGNATURE"
             /\ \A j \in 1..(k - 1) : fields[j].type # "SIGNATURE"
    ELSE 0

\* the list handleSignContract hands to updateContractFields
signedFields(fields, signature) ==
    LET s == findSignature(fields)
    IN  [k \in 1..Len(fields) |->
            IF fields[k].id = fields[s].id
            THEN [fields[k] EXCEPT !.value = signature]
            ELSE fields[k]]

\* updateContractFields and then transitionStatus, whatever the first returned
handleSignContract ==
    LET c == contracts[contractOnPage]
        signatureField == findSignature(FieldsOf(c))
        written == IF signatureField # 0 /\ page.modalSignature # Null
                   THEN updateContractFieldsIn(
                            storeNow, c.id,
                            signedFields(FieldsOf(c), page.modalSignature))
                   ELSE storeNow
    IN  /\ becomes(transitionStatusIn(written, c.id, "SIGNED"))
        /\ page' = [page EXCEPT !.showSignModal = FALSE,
                                !.modalSignature = Null,
                                !.toast = toastOf("Client signature recorded.", <<>>)]

\* navigate('/') takes the page off the screen
handleDelete ==
    /\ deleteContract(contracts[contractOnPage].id)
    /\ page' = NoPage

\* a click that only sets component state; the render that follows sorts, in
\* place, a list that is in position order since the page was opened
setState(next) ==
    /\ page' = next
    /\ UNCHANGED storeVars
    /\ UNCHANGED smVars

\* the route /contracts/:id is entered: the first render sorts contract.fields in place
OpenPage ==
    \E id \in 1..(ContractCap + 1) :
        /\ page.id = 0
        /\ getContract(id) # 0
        /\ page' = [NoPage EXCEPT !.id = id]
        /\ heap' = [heap EXCEPT ![contracts[getContract(id)].fields] = sortByPosition(@)]
        /\ UNCHANGED <<contracts, blueprints, now, nextId, nextBlueprintId, ret, progress>>
        /\ UNCHANGED smVars

Shown == contractOnPage # 0

ClickApprove ==
    /\ Shown
    /\ includes(validTransitions, "APPROVED")
    /\ setState([page EXCEPT !.showTransitionModal = "APPROVED"])

ClickSend ==
    /\ Shown
    /\ includes(validTransitions, "SENT")
    /\ setState([page EXCEPT !.showSendModal = TRUE])

ClickLock ==
    /\ Shown
    /\ includes(validTransitions, "LOCKED")
    /\ setState([page EXCEPT !.showTransitionModal = "LOCKED"])

ClickRevoke ==
    /\ Shown
    /\ includes(validTransitions, "REVOKED")
    /\ setState([page EXCEPT !.showTransitionModal = "REVOKED"])

ClickDelete ==
    /\ Shown
    /\ setState([page EXCEPT !.showDeleteModal = TRUE])

\* Confirm in the "Confirm Action" modal
ConfirmTransition ==
    /\ Shown
    /\ page.showTransitionModal # Null
    /\ handleTransition(page.showTransitionModal)

\* Delete in the "Delete Contract" modal
ConfirmDelete ==
    /\ Shown
    /\ page.showDeleteModal
    /\ handleDelete

\* onClose of the three modals that can be open
CloseModal ==
    /\ Shown
    /\ \/ page.showTransitionModal # Null
          /\ setState([page EXCEPT !.showTransitionModal = Null])
       \/ page.showDeleteModal /\ setState([page EXCEPT !.showDeleteModal = FALSE])
       \/ page.showSendModal /\ setState([page EXCEPT !.showSendModal = FALSE])

Addresses == { <<" ">>, <<"a">> }

\* the Recipient Email input of the "Send Contract" modal
TypeEmail ==
    \E text \in Addresses :
        /\ Shown
        /\ page.showSendModal
        /\ setState([page EXCEPT !.recipientEmail = text])

\* Send in the "Send Contract" modal
SubmitSend ==
    /\ Shown
    /\ page.showSendModal
    /\ handleSendContract

\* the control of a field that is not disabled
ChangeField ==
    /\ Shown
    /\ \E k \in 1..Len(FieldsOf(contracts[contractOnPage])) :
          LET field == FieldsOf(contracts[contractOnPage])[k] IN
          /\ ~isDisabled(field)
          /\ \E value \in Typed(field) :
                handleFieldChange(field.id, value) /\ UNCHANGED page

\* the link "Back to Dashboard"
BackToDashboard ==
    /\ page.id # 0
    /\ setState(NoPage)

\* what the rest of the application does while ContractView is not on screen
Elsewhere ==
    /\ page.id = 0
    /\ \/ CreateBlueprint
       \/ CreateContract
       \/ TransitionStatus
       \/ UpdateContractFields

\* Confirm, when the modal is about a step forward
ConfirmForward ==
    /\ page.showTransitionModal \in {"APPROVED", "LOCKED"}
    /\ ConfirmTransition

\* the controls that take a contract forward in its lifecycle
Forward ==
    \/ ClickApprove
    \/ ClickSend
    \/ ClickLock
    \/ ConfirmForward
    \/ SubmitSend

InitPage ==
    /\ contracts = <<>>
    /\ blueprints = <<>>
    /\ heap = [r \in Refs |-> <<>>]
    /\ now = 0
    /\ nextId = 1
    /\ nextBlueprintId = 1
    /\ ret = "none"
    /\ progress = [i \in ContractIds |-> 0]
    /\ canCall = [from |-> "none", to |-> "none", value |-> FALSE]
    /\ validCall = [from |-> "none", value |-> <<>>]
    /\ searchCall = [called |-> FALSE, query |-> <<>>, value |-> <<>>]
    /\ scenario = "page"
    /\ goal = "none"
    /\ page = NoPage

NextPage ==
    \/ Elsewhere
    \/ OpenPage
    \/ ClickApprove
    \/ ClickSend
    \/ ClickLock
    \/ ClickRevoke
    \/ ClickDelete
    \/ ConfirmTransition
    \/ ConfirmDelete
    \/ CloseModal
    \/ TypeEmail
    \/ SubmitSend
    \/ ChangeField
    \/ BackToDashboard

\* whoever sits at the page uses a control that takes the contract forward
\* for as long as the page shows one, and does not shut the modal on every
\* step forward it has asked for
SpecPage ==
    InitPage /\ [][NextPage]_vars /\ WF_vars(Forward) /\ SF_vars(ConfirmForward)

\* ------------------------------------------ ContractView with its Sign modal
\* The "Sign Contract" modal is rendered with isOpen={showSignModal}, and no
\* control of the page calls setShowSignModal(true).  Here something does, for
\* a contract in any status, so that the modal's controls and
\* handleSignContract can be used.
OpenSignModal ==
    /\ Shown
    /\ ~page.showSignModal
    /\ setState([page EXCEPT !.showSignModal = TRUE])

\* onClose of the "Sign Contract" modal
CloseSignModal ==
    /\ Shown
    /\ page.showSignModal
    /\ setState([page EXCEPT !.showSignModal = FALSE])

\* the SignaturePad of the modal: a drawn signature, or null after Clear
DrawSignature ==
    \E signature \in {"s:modal", Null} :
        /\ Shown
        /\ page.showSignModal
        /\ setState([page EXCEPT !.modalSignature = signature])

\* Submit in the "Sign Contract" modal; disabled while there is no signature
SubmitSign ==
    /\ Shown
    /\ page.showSignModal
    /\ page.modalSignature # Null
    /\ handleSignContract

\* what the rest of the application does while ContractView is not on screen,
\* field edits left out
Dashboard ==
    /\ page.id = 0
    /\ \/ CreateBlueprint
       \/ CreateContract
       \/ TransitionStatus

InitSign ==
    /\ contracts = <<>>
    /\ blueprints = <<>>
    /\ heap = [r \in Refs |-> <<>>]
    /\ now = 0
    /\ nextId = 1
    /\ nextBlueprintId = 1
    /\ ret = "none"
    /\ progress = [i \in ContractIds |-> 0]
    /\ canCall = [from |-> "none", to |-> "none", value |-> FALSE]
    /\ validCall = [from |-> "none", value |-> <<>>]
    /\ searchCall = [called |-> FALSE, query |-> <<>>, value |-> <<>>]
    /\ scenario = "sign"
    /\ goal = "none"
    /\ page = NoPage

NextSign ==
    \/ Dashboard
    \/ OpenPage
    \/ ClickApprove
    \/ ClickSend
    \/ ClickLock
    \/ ClickRevoke
    \/ ClickDelete
    \/ ConfirmTransition
    \/ ConfirmDelete
    \/ CloseModal
    \/ TypeEmail
    \/ SubmitSend
    \/ ChangeField
    \/ BackToDashboard
    \/ OpenSignModal
    \/ CloseSignModal
    \/ DrawSignature
    \/ SubmitSign

SpecSign == InitSign /\ [][NextSign]_vars

\* ------------------------------------------------ the blueprint editor's moves
InitMove ==
    /\ contracts = <<>>
    /\ blueprints = <<>>
    /\ heap = [r \in Refs |-> <<>>]
    /\ now = 0
    /\ nextId = 1
    /\ nextBlueprintId = 1
    /\ ret = "none"
    /\ progress = [i \in ContractIds |-> 0]
    /\ canCall = [from |-> "none", to |-> "none", value |-> FALSE]
    /\ validCall = [from |-> "none", value |-> <<>>]
    /\ searchCall = [called |-> FALSE, query |-> <<>>, value |-> <<>>]
    /\ scenario = "move"
    /\ goal = "none"
    /\ page = NoPage

NextMove ==
    \/ CreateBlueprint
    \/ MoveField
    \/ DeleteBlueprint

SpecMove == InitMove /\ [][NextMove]_vars

\* --------------------------------------------------- the search on its own
CallSearchContracts ==
    \E query \in Queries :
        /\ searchCall' = [called |-> TRUE, query |-> query,
                          value |-> searchContracts(query)]
        /\ UNCHANGED <<canCall, validCall, scenario, goal, page>>
        /\ UNCHANGED storeVars

InitSearch ==
    /\ contracts = <<>>
    /\ blueprints = <<>>
    /\ heap = [r \in Refs |-> <<>>]
    /\ now = 0
    /\ nextId = 1
    /\ nextBlueprintId = 1
    /\ ret = "none"
    /\ progress = [i \in ContractIds |-> 0]
    /\ canCall = [from |-> "none", to |-> "none", value |-> FALSE]
    /\ validCall = [from |-> "none", value |-> <<>>]
    /\ searchCall = [called |-> FALSE, query |-> <<>>, value |-> <<>>]
    /\ scenario = "search"
    /\ goal = "none"
    /\ page = NoPage

NextSearch ==
    \/ CreateBlueprint
    \/ UpdateBlueprint
    \/ CreateContract
    \/ CallSearchContracts

SpecSearch == InitSearch /\ [][NextSearch]_vars

\* ------------------------------------- a caller that takes a contract somewhere
\* the calls that bring a contract in status nearer to the status to: the next
\* step of the lifecycle, or REVOKED itself, which has three ways in
toward(status, to) ==
    IF stepIndex(status) = 0 \/ status = "LOCKED" THEN {}
    ELSE IF to = "REVOKED"
    THEN {"REVOKED"} \cup ({LIFECYCLE_STEPS[stepIndex(status) + 1]} \cap {"APPROVED", "SENT"})
    ELSE IF stepIndex(status) < stepIndex(to)
    THEN {LIFECYCLE_STEPS[stepIndex(status) + 1]}
    ELSE {}

Drive ==
    \E i \in 1..Len(contracts) :
        \E newStatus \in toward(contracts[i].status, goal) :
            transitionStatus(contracts[i].id, newStatus) /\ UNCHANGED page

InitDrive ==
    /\ contracts = <<>>
    /\ blueprints = <<>>
    /\ heap = [r \in Refs |-> <<>>]
    /\ now = 0
    /\ nextId = 1
    /\ nextBlueprintId = 1
    /\ ret = "none"
    /\ progress = [i \in ContractIds |-> 0]
    /\ canCall = [from |-> "none", to |-> "none", value |-> FALSE]
    /\ validCall = [from |-> "none", value |-> <<>>]
    /\ searchCall = [called |-> FALSE, query |-> <<>>, value |-> <<>>]
    /\ scenario = "drive"
    /\ goal \in Status \ {"CREATED"}
    /\ page = NoPage

NextDrive ==
    \/ CreateBlueprint
    \/ CreateContract
    \/ Tick
    \/ Drive

\* the caller does not give up before its contract is where it wants it
SpecDrive == InitDrive /\ [][NextDrive]_vars /\ WF_vars(Drive)

\* =================================================================
\* Properties
\* =================================================================
\* the transition table of the lifecycle, as pairs
Edges ==
    { <<"CREATED", "APPROVED">>, <<"CREATED", "REVOKED">>,
      <<"APPROVED", "SENT">>, <<"APPROVED", "REVOKED">>, <<"APPROVED", "CREATED">>,
      <<"SENT", "SIGNED">>, <<"SENT", "REVOKED">>,
      <<"SIGNED", "LOCKED">> }

\* the contract with this id, before and after a step (it is in both lists)
Before(id) == contracts[indexOf(contracts, id)]
After(id) == contracts'[indexOf(contracts', id)]
Stays(id) == indexOf(contracts, id) # 0 /\ indexOf(contracts', id) # 0
FieldsBefore(id) == heap[Before(id).fields]
FieldsAfter(id) == heap'[After(id).fields]

AllIds == 1..(MaxContracts + 1)

\* ------------------------------------------------------------------ C1
StatusInDomain == \A i \in 1..Len(contracts) : contracts[i].status \in Status

StatusChangeIsTransition ==
    \A id \in AllIds :
        (Stays(id) /\ Before(id).status # After(id).status)
            => /\ <<Before(id).status, After(id).status>> \in Edges
               /\ transitionStatus(id, After(id).status)

\* C1: every contract's status is one of the six values, and a status changes
\* only in a transitionStatus step along an edge of the transition table.
C1_StatusOnlyByValidTransition ==
    []StatusInDomain /\ [][StatusChangeIsTransition]_vars

C1_Witness ==
    \E i \in 1..Len(contracts) :
        contracts[i].status = "LOCKED" /\ contracts[i].updatedAt > contracts[i].createdAt

\* ------------------------------------------------------------------ C2
\* C2: canTransition is defined on all 36 pairs, true exactly on the edges of
\* the table, false on every pair from = to, and agrees with membership in
\* getValidTransitions, which is empty for LOCKED and REVOKED.
C2_CanTransitionIsTheTable ==
    /\ canCall.from # "none" =>
          /\ canCall.value \in BOOLEAN
          /\ canCall.value <=> (<<canCall.from, canCall.to>> \in Edges)
          /\ canCall.from = canCall.to => ~canCall.value
    /\ (canCall.from # "none" /\ validCall.from = canCall.from) =>
          (canCall.value <=>
              \E k \in 1..Len(validCall.value) : validCall.value[k] = canCall.to)
    /\ validCall.from \in {"LOCKED", "REVOKED"} => validCall.value = <<>>

C2_Witness ==
    /\ canCall = [from |-> "APPROVED", to |-> "CREATED", value |-> TRUE]
    /\ validCall.from = "APPROVED"

\* ------------------------------------------------------------------ C3
Terminal == {"LOCKED", "REVOKED"}

TerminalIsFinal ==
    \A id \in AllIds :
        (indexOf(contracts, id) # 0 /\ Before(id).status \in Terminal) =>
            /\ \A to \in Status :
                  /\ ~canTransition(Before(id).status, to)
                  /\ ret' = "fail" \/ ~transitionStatus(id, to)
            /\ Stays(id) => After(id).status = Before(id).status

\* C3: from LOCKED and from REVOKED canTransition is false for every target,
\* every transitionStatus call on such a contract fails, and its status stays
\* what it is for as long as the contract is in the list.
C3_TerminalEnforcement == [][TerminalIsFinal]_vars

C3_Witness ==
    \E i \in 1..Len(contracts) :
        /\ contracts[i].status = "REVOKED"
        /\ progress[contracts[i].id] = 2
        /\ ret = "fail"

\* ------------------------------------------------------------------ C4
Closed == {"SIGNED", "LOCKED", "REVOKED"}

ClosedIsFrozen ==
    \A id \in AllIds :
        (Stays(id) /\ Before(id).status \in Closed) =>
            /\ FieldsAfter(id) = FieldsBefore(id)
            /\ \/ After(id).status = Before(id).status
               \/ Before(id).status = "SIGNED" /\ After(id).status = "LOCKED"

\* C4: once a contract is SIGNED, LOCKED or REVOKED no step changes its field
\* list, and the only status change left is SIGNED -> LOCKED.
C4_TerminalInvariant == [][ClosedIsFrozen]_vars

C4_Witness ==
    \E i \in 1..Len(contracts) :
        /\ contracts[i].status = "LOCKED"
        /\ \E k \in 1..Len(FieldsOf(contracts[i])) :
              FieldsOf(contracts[i])[k].value = "s:sig"
        /\ ret = "fail"

\* ------------------------------------------------------------------ C5
Editable == {"CREATED", "SENT"}

EditOnlyWhenEditable ==
    /\ \A id \in AllIds :
          indexOf(contracts, id) # 0 =>
              \A fields \in ContractFieldLists(FieldsBefore(id)) :
                  \/ /\ ret' = "ok" <=> Before(id).status \in Editable
                     /\ ret' = "fail" <=> Before(id).status \notin Editable
                     /\ ret' = "ok" => Stays(id) /\ FieldsAfter(id) = fields
                  \/ ~updateContractFields(id, fields)
    /\ \A id \in AllIds :
          (Stays(id) /\ FieldsAfter(id) # FieldsBefore(id)) =>
              Before(id).status \in Editable

\* C5: updateContractFields on an existing contract returns true and replaces
\* the field list iff the status is CREATED or SENT, returns false in the other
\* four statuses, and a field list changes only while the status is CREATED or SENT.
C5_FieldEditInvariant == [][EditOnlyWhenEditable]_vars

C5_Witness ==
    \E i \in 1..Len(contracts) :
        /\ contracts[i].status = "SENT"
        /\ Len(FieldsOf(contracts[i])) = 1
        /\ FieldsOf(contracts[i])[1].value = "s:sig"
        /\ ret = "ok"

\* ------------------------------------------------------------------ C6
\* a step that changes the contract list or a container is no call that failed
FailureChangesNothing ==
    (contracts' # contracts \/ heap' # heap) =>
        /\ \A id \in AllIds :
              \A fields \in (IF indexOf(contracts, id) = 0 THEN {<<>>}
                             ELSE ContractFieldLists(FieldsBefore(id))) :
                  updateContractFields(id, fields) => ret' # "fail"
        /\ \A id \in AllIds, newStatus \in Status :
              transitionStatus(id, newStatus) => ret' # "fail"

\* C6: a failed updateContractFields or transitionStatus (unknown id, edit in
\* the wrong status, illegal transition) leaves the whole contract list as it
\* was: status, fields and updatedAt of the target and every other contract.
C6_NoPartialApplication == [][FailureChangesNothing]_vars

\* a call was refused at a time when a write would have shown in updatedAt
C6_Witness ==
    /\ ret = "fail"
    /\ now = 1
    /\ Len(contracts) = 1
    /\ contracts[1].status = "APPROVED"
    /\ contracts[1].updatedAt = 0
    /\ FieldsOf(contracts[1])[1].value = "s:x"

\* ------------------------------------------------------------------ C7
BlueprintStep == CreateBlueprint \/ UpdateBlueprint \/ MoveField \/ DeleteBlueprint

\* a step that changes a contract or its field list is no blueprint store step
BlueprintStepKeepsContracts ==
    (\/ contracts' # contracts
     \/ \E i \in 1..Len(contracts) :
            heap'[contracts[i].fields] # heap[contracts[i].fields])
        => ~BlueprintStep

\* C7: no operation of the blueprint store (updateBlueprint, moveField,
\* deleteBlueprint, createBlueprint) changes an existing contract: its field
\* list and its blueprintName stay exactly as createContract left them.
C7_SnapshotIsolation == [][BlueprintStepKeepsContracts]_vars

\* a contract whose blueprint has since been renamed and relabelled
C7_Witness ==
    \E i \in 1..Len(contracts), b \in 1..Len(blueprints) :
        /\ blueprints[b].id = contracts[i].blueprintId
        /\ contracts[i].blueprintName = <<"T">>
        /\ blueprints[b].name = <<"U">>
        /\ \E k \in 1..Len(FieldsOf(contracts[i])) :
              /\ FieldsOf(contracts[i])[k].id = "f1"
              /\ FieldsOf(contracts[i])[k].label = "Name"
              /\ FieldsOf(contracts[i])[k].position = 0
        /\ \E k \in 1..Len(heap[blueprints[b].fields]) :
              /\ heap[blueprints[b].fields][k].id = "f1"
              /\ heap[blueprints[b].fields][k].label = "Full name"
              /\ heap[blueprints[b].fields][k].position = 1

\* ------------------------------------------------------------------ C8
\* what createContract is to make of one blueprint field
IsSnapshotOf(cf, f) ==
    /\ cf.id = f.id
    /\ cf.type = f.type
    /\ cf.label = f.label
    /\ cf.position = f.position
    /\ cf.required = f.required
    /\ cf.editableBy = f.editableBy
    /\ cf.placeholder = f.placeholder
    /\ cf.value = IF f.type # "CHECKBOX" THEN Null
                  ELSE IF f.defaultChecked = "true" THEN "true" ELSE "false"

CreateAppendsSnapshot ==
    \A name \in NameInputs, blueprintId \in 1..(MaxBlueprints + 1) :
        (ret' = "ok" /\ createContract(name, blueprintId)) =>
            LET blueprint == blueprints[getBlueprint(blueprintId)]
                source == heap[blueprint.fields]
                new == contracts'[Len(contracts')]
                fields == heap'[new.fields]
            IN  /\ Len(contracts') = Len(contracts) + 1
                /\ SubSeq(contracts', 1, Len(contracts)) = contracts
                /\ \A i \in 1..Len(contracts) :
                      heap'[contracts[i].fields] = heap[contracts[i].fields]
                /\ new.status = "CREATED"
                /\ new.blueprintName = blueprint.name
                /\ new.createdAt = new.updatedAt
                /\ new.createdAt = now
                /\ Len(fields) = Len(source)
                /\ \A k \in 1..(Len(fields) - 1) :
                      fields[k].position <= fields[k + 1].position
                /\ \A j \in 1..Len(source) :
                      \E k \in 1..Len(fields) :
                          /\ IsSnapshotOf(fields[k], source[j])
                          /\ \A m \in 1..Len(fields) : fields[m].id = source[j].id => m = k

\* C8: a successful createContract appends exactly one contract: status
\* CREATED, blueprintName the blueprint's name of that moment, createdAt equal
\* to updatedAt, and one field per blueprint field in ascending position order,
\* copying id, type, label, position, required, editable-by and placeholder,
\* with value the default-checked flag (false if unset) for CHECKBOX and null
\* for the other types.
C8_CreateContractSnapshot == [][CreateAppendsSnapshot]_vars

C8_Witness ==
    \E i \in 1..Len(contracts) :
        /\ contracts[i].status = "CREATED"
        /\ contracts[i].createdAt = 1
        /\ contracts[i].updatedAt = 1
        /\ Len(FieldsOf(contracts[i])) = 2
        /\ FieldsOf(contracts[i])[1].type = "CHECKBOX"
        /\ FieldsOf(contracts[i])[1].value = "true"
        /\ FieldsOf(contracts[i])[2].type = "CHECKBOX"
        /\ FieldsOf(contracts[i])[2].value = "false"

\* ------------------------------------------------------------------ C9
Blank(name) == \A k \in 1..Len(name) : name[k] = " "

BadCreateFails ==
    \A name \in NameInputs, blueprintId \in 1..(MaxBlueprints + 1) :
        (\/ Blank(name)
         \/ \A b \in 1..Len(blueprints) : blueprints[b].id # blueprintId)
            => \/ /\ ret' = "fail"
                  /\ contracts' = contracts
                  /\ heap' = heap
               \/ ~createContract(name, blueprintId)

\* C9: createContract with an empty or all-whitespace name, or with a
\* blueprintId no blueprint has, returns no contract and leaves the contract
\* list as it was.
C9_CreateContractFails == [][BadCreateFails]_vars

\* a blueprint and a contract are there, and the last call was refused
C9_Witness ==
    /\ ret = "fail"
    /\ Len(blueprints) = 1
    /\ Len(contracts) = 1
    /\ nextId = 2
    /\ contracts[1].status = "CREATED"

\* ------------------------------------------------------------------ C10
\* pairs that would move a contract two or more steps along the lifecycle
Skips ==
    { <<"CREATED", "SENT">>, <<"CREATED", "SIGNED">>, <<"CREATED", "LOCKED">>,
      <<"APPROVED", "SIGNED">>, <<"APPROVED", "LOCKED">>, <<"SENT", "LOCKED">> }

SkipFails ==
    \A id \in AllIds, newStatus \in Status :
        (/\ indexOf(contracts, id) # 0
         /\ <<Before(id).status, newStatus>> \in Skips)
            => \/ ret' = "fail" /\ contracts' = contracts
               \/ ~transitionStatus(id, newStatus)

PassedEveryStage ==
    \A i \in 1..Len(contracts) :
        contracts[i].status \in {"SIGNED", "LOCKED"} => progress[contracts[i].id] = 3

\* C10: transitionStatus never moves a contract two or more lifecycle steps at
\* once, so a SIGNED or LOCKED contract has been APPROVED, then SENT, then
\* SIGNED, in that order.
C10_NoSkippedStages == []PassedEveryStage /\ [][SkipFails]_vars

C10_Witness ==
    \E i \in 1..Len(contracts) :
        /\ contracts[i].status = "LOCKED"
        /\ progress[contracts[i].id] = 3
        /\ ret = "fail"
        /\ Len(contracts) = 2

\* ------------------------------------------------------------------ C11
DriveSucceeds == Drive => ret' = "ok"

\* C11: from a freshly created contract (status CREATED) each of APPROVED,
\* SENT, SIGNED, LOCKED and REVOKED is reached by transitionStatus calls that
\* all succeed: a caller that keeps making the next call towards one of them
\* is never refused and arrives.
C11_Reachability ==
    /\ [][DriveSucceeds]_vars
    /\ \A to \in Status \ {"CREATED"} :
          (goal = to /\ Len(contracts) = 1 /\ contracts[1].status = "CREATED")
              ~> (Len(contracts) = 1 /\ contracts[1].status = to)

C11_Witness ==
    /\ goal = "LOCKED"
    /\ Len(contracts) = 1
    /\ contracts[1].status = "LOCKED"
    /\ contracts[1].updatedAt > contracts[1].createdAt
    /\ ret = "ok"

\* ------------------------------------------------------------------ C12
\* a comes before b in CREATED < APPROVED < SENT < SIGNED < LOCKED
Earlier(a, b) == stepIndex(a) # 0 /\ stepIndex(b) # 0 /\ stepIndex(a) < stepIndex(b)

\* the pairs <<from, to>> with to before from
Backward == { p \in Status \X Status : Earlier(p[2], p[1]) }

BackwardIsRevert ==
    /\ \/ contracts' = contracts
       \/ \A id \in AllIds :
              (Stays(id) /\ <<Before(id).status, After(id).status>> \in Backward)
                  => Before(id).status = "APPROVED" /\ After(id).status = "CREATED"
    /\ \/ ret' = "fail"
       \/ \A i \in 1..Len(contracts) :
              LET from == contracts[i].status IN
              \A to \in Status :
                  (<<from, to>> \in Backward /\ <<from, to>> # <<"APPROVED", "CREATED">>)
                      => ~transitionStatus(contracts[i].id, to)

\* progress 2: the contract has been SENT; progress 3: it has been SIGNED
NeverBackBehindSent ==
    \A i \in 1..Len(contracts) :
        /\ progress[contracts[i].id] >= 2 =>
               contracts[i].status \notin {"CREATED", "APPROVED"}
        /\ progress[contracts[i].id] = 3 =>
               contracts[i].status \notin {"CREATED", "APPROVED", "SENT"}

\* C12: in the order CREATED < APPROVED < SENT < SIGNED < LOCKED the only
\* transition to an earlier status that succeeds is APPROVED -> CREATED, so a
\* contract that has been SENT is never again CREATED or APPROVED, and one that
\* has been SIGNED is never again CREATED, APPROVED or SENT.
C12_BackwardOnlyRevert == []NeverBackBehindSent /\ [][BackwardIsRevert]_vars

\* one contract was approved and taken back; the other is SENT and a call was refused
C12_Witness ==
    /\ Len(contracts) = 2
    /\ contracts[1].status = "CREATED"
    /\ progress[contracts[1].id] = 1
    /\ contracts[2].status = "SENT"
    /\ ret = "fail"

\* ------------------------------------------------------------------ C13
Revocable == {"CREATED", "APPROVED", "SENT"}

RevokeIffRevocable ==
    /\ \A i \in 1..Len(contracts) :
          LET id == contracts[i].id
              from == contracts[i].status
          IN  \/ /\ ret' = "ok" <=> from \in Revocable
                 /\ ret' = "fail" <=> from \notin Revocable
                 /\ ret' = "ok" => Stays(id) /\ After(id).status = "REVOKED"
              \/ ~transitionStatus(id, "REVOKED")
    /\ \/ contracts' = contracts
       \/ \A id \in AllIds :
              (Stays(id) /\ Before(id).status \in {"SIGNED", "LOCKED"})
                  => After(id).status \in {"SIGNED", "LOCKED"}

SignedNeverRevoked ==
    \A i \in 1..Len(contracts) :
        progress[contracts[i].id] = 3 => contracts[i].status # "REVOKED"

\* C13: transitionStatus(id, REVOKED) on an existing contract returns true, and
\* makes it REVOKED, iff its status is CREATED, APPROVED or SENT; a contract
\* that is SIGNED or LOCKED stays SIGNED or LOCKED and is never REVOKED.
C13_Revocation == []SignedNeverRevoked /\ [][RevokeIffRevocable]_vars

\* one contract was revoked after it was sent; the other is signed and a call was refused
C13_Witness ==
    /\ Len(contracts) = 2
    /\ contracts[1].status = "REVOKED"
    /\ progress[contracts[1].id] = 2
    /\ contracts[2].status = "SIGNED"
    /\ ret = "fail"

\* ------------------------------------------------------------------ C14
\* the filters whose result has a contract with this id
FiltersShowing(id) ==
    { f \in DashboardFilters :
        \E k \in 1..Len(getContractsByFilter(f)) : getContractsByFilter(f)[k].id = id }

Bucket(f) == { getStatusesForFilter(f)[k] : k \in 1..Len(getStatusesForFilter(f)) }

\* C14: getStatusesForFilter gives {CREATED, APPROVED} for Active, {SENT} for
\* Pending, {SIGNED, LOCKED} for Signed and {REVOKED} for Archived, every status
\* is in exactly one of the four, and in every state each contract of the list
\* is in the result of getContractsByFilter for exactly one filter, which
\* returns nothing but contracts of the list.
C14_DashboardPartition ==
    /\ Bucket("active") = {"CREATED", "APPROVED"}
    /\ Bucket("pending") = {"SENT"}
    /\ Bucket("signed") = {"SIGNED", "LOCKED"}
    /\ Bucket("archived") = {"REVOKED"}
    /\ \A st \in Status : Cardinality({ f \in DashboardFilters : st \in Bucket(f) }) = 1
    /\ \A i \in 1..Len(contracts) : Cardinality(FiltersShowing(contracts[i].id)) = 1
    /\ \A f \in DashboardFilters :
          \A k \in 1..Len(getContractsByFilter(f)) :
              \E i \in 1..Len(contracts) : contracts[i] = getContractsByFilter(f)[k]

C14_Witness ==
    /\ Len(contracts) = 2
    /\ contracts[1].status = "LOCKED"
    /\ contracts[2].status = "APPROVED"
    /\ FiltersShowing(contracts[1].id) = {"signed"}
    /\ FiltersShowing(contracts[2].id) = {"active"}

\* ------------------------------------------------------------------ C15
DeleteRemovesExactlyOne ==
    \A id \in AllIds :
        \/ IF indexOf(contracts, id) = 0
           THEN /\ ret' = "fail"
                /\ contracts' = contracts
                /\ heap' = heap
           ELSE /\ ret' = "ok"
                /\ Len(contracts') = Len(contracts) - 1
                /\ indexOf(contracts', id) = 0
                /\ \A i \in 1..Len(contracts) :
                      contracts[i].id # id =>
                          /\ contracts'[IF i < indexOf(contracts, id) THEN i ELSE i - 1]
                                = contracts[i]
                          /\ heap'[contracts[i].fields] = heap[contracts[i].fields]
        \/ ~deleteContract(id)

\* C15: deleteContract on an id no contract has returns false and leaves the
\* list as it was; on the id of a contract it returns true and removes that
\* contract and no other, the rest keeping their order, their records and their
\* fields; it does so whatever the contract's status is.
C15_DeleteContract == [][DeleteRemovesExactlyOne]_vars

\* the first contract was signed and has been deleted, the second is still there
C15_Witness ==
    /\ ret = "ok"
    /\ Len(contracts) = 1
    /\ contracts[1].id = 2
    /\ progress[1] = 3

\* ------------------------------------------------------------------ C16
TimestampsMoveOn ==
    /\ \/ contracts' = contracts
       \/ \A id \in AllIds :
              Stays(id) =>
                  /\ After(id).createdAt = Before(id).createdAt
                  /\ After(id).updatedAt >= Before(id).updatedAt
    /\ \/ ret' # "ok"
       \/ \A i \in 1..Len(contracts) :
              LET id == contracts[i].id IN
              \/ /\ Stays(id)
                 /\ After(id).updatedAt = now
                 /\ After(id).createdAt = Before(id).createdAt
              \/ /\ \A fields \in ContractFieldLists(FieldsBefore(id)) :
                        ~updateContractFields(id, fields)
                 /\ \A newStatus \in Status : ~transitionStatus(id, newStatus)

CreatedBeforeUpdated ==
    \A i \in 1..Len(contracts) : contracts[i].createdAt <= contracts[i].updatedAt

\* C16: a successful updateContractFields or transitionStatus sets updatedAt
\* to the time of the call and leaves createdAt as it is; no step changes a
\* createdAt or moves an updatedAt back, and createdAt <= updatedAt throughout.
C16_Timestamps == []CreatedBeforeUpdated /\ [][TimestampsMoveOn]_vars

\* a contract edited after the clock moved on
C16_Witness ==
    \E i \in 1..Len(contracts) :
        /\ contracts[i].status = "CREATED"
        /\ contracts[i].createdAt = 0
        /\ contracts[i].updatedAt = 1
        /\ now = 1
        /\ ret = "ok"
        /\ FieldsOf(contracts[i])[1].value = "s:x"

\* ------------------------------------------------------------------ C18
\* a and b are the same letter, capital or small
SameLetter(a, b) ==
    \/ a = b
    \/ <<a, b>> \in { <<"A", "a">>, <<"B", "b">>, <<"D", "d">>,
                      <<"N", "n">>, <<"T", "t">>, <<"X", "x">> }
    \/ <<b, a>> \in { <<"A", "a">>, <<"B", "b">>, <<"D", "d">>,
                      <<"N", "n">>, <<"T", "t">>, <<"X", "x">> }

\* q occurs somewhere in text, capitals and small letters taken as the same
Occurs(q, text) ==
    \E start \in 0..(Len(text) - Len(q)) :
        \A k \in 1..Len(q) : SameLetter(text[start + k], q[k])

SearchFindsTheMatches ==
    searchCall' # searchCall =>
        /\ contracts' = contracts
        /\ heap' = heap
        /\ searchCall'.value =
              SelectSeq(contracts,
                        LAMBDA c : \/ Occurs(searchCall'.query, c.name)
                                   \/ Occurs(searchCall'.query, c.blueprintName))

\* C18: searchContracts(query) returns, in the order of the list, exactly the
\* contracts whose name or whose blueprintName has the query in it when
\* capitals and small letters are taken as the same, and leaves the list alone.
C18_SearchContracts == [][SearchFindsTheMatches]_vars

\* found by the name its blueprint had when the contract was made; the other is not
C18_Witness ==
    /\ Len(contracts) = 2
    /\ contracts[1].name = <<"a", "b">>
    /\ contracts[1].blueprintName = <<"T", " ", "n", "D", "a">>
    /\ contracts[2].blueprintName = <<"X">>
    /\ searchCall.query = <<"D", "A">>
    /\ searchCall.value = <<contracts[1]>>

\* ------------------------------------------------------------------ C19
Positions(arr) == { arr[k].position : k \in 1..Len(arr) }
FieldIds(arr) == { arr[k].id : k \in 1..Len(arr) }

\* the indices of the fields of arr that come before (up) or after (down) the
\* field at index k in position order
Beyond(arr, k, direction) ==
    { n \in 1..Len(arr) :
        IF direction = "up" THEN arr[n].position < arr[k].position
        ELSE arr[n].position > arr[k].position }

\* of those, the nearest one
Neighbour(arr, k, direction) ==
    CHOOSE n \in Beyond(arr, k, direction) :
        \A m \in Beyond(arr, k, direction) :
            IF direction = "up" THEN arr[m].position <= arr[n].position
            ELSE arr[m].position >= arr[n].position

\* what a move is to do to the field list old of a blueprint
IsMoveOf(old, new, fieldId, direction) ==
    LET k == fieldIndex(old, fieldId) IN
    IF k = 0 \/ Beyond(old, k, direction) = {} THEN new = old
    ELSE LET n == Neighbour(old, k, direction) IN
         /\ Len(new) = Len(old)
         /\ new[k] = [old[k] EXCEPT !.position = old[n].position]
         /\ new[n] = [old[n] EXCEPT !.position = old[k].position]
         /\ \A j \in 1..Len(old) : j \notin {k, n} => new[j] = old[j]

MoveSwapsNeighbours ==
    \A id \in 1..(MaxBlueprints + 1), fieldId \in FieldIdInputs,
       direction \in {"up", "down"}, inPlace \in BOOLEAN :
        \/ ~moveField(id, fieldId, direction, inPlace)
        \/ /\ contracts' = contracts
           /\ Len(blueprints') = Len(blueprints)
           /\ \A b \in 1..Len(blueprints) :
                 LET old == heap[blueprints[b].fields]
                     new == heap'[blueprints'[b].fields]
                 IN  /\ blueprints'[b].id = blueprints[b].id
                     /\ blueprints'[b].name = blueprints[b].name
                     /\ IF blueprints[b].id = id
                        THEN /\ IsMoveOf(old, new, fieldId, direction)
                             /\ FieldIds(new) = FieldIds(old)
                             /\ Positions(new) = Positions(old)
                        ELSE new = old

PositionsUnique ==
    \A b \in 1..Len(blueprints) :
        Cardinality(Positions(heap[blueprints[b].fields])) = Len(heap[blueprints[b].fields])

\* C19: moveField exchanges the position of the field with that of its
\* neighbour in the given direction and changes nothing else, in this blueprint
\* or in another; for the first field up and the last field down it changes
\* nothing at all. A move keeps the blueprint's set of fields and its set of
\* position values, and positions stay unique within every blueprint.
C19_MoveField == []PositionsUnique /\ [][MoveSwapsNeighbours]_vars

\* after two moves the date field, stored first, is in the middle of three
C19_Witness ==
    \E b \in 1..Len(blueprints) :
        LET arr == heap[blueprints[b].fields] IN
        /\ Len(arr) = 3
        /\ arr[1].id = "f5" /\ arr[1].position = 1
        /\ arr[2].id = "f2" /\ arr[2].position = 0
        /\ arr[3].id = "f1" /\ arr[3].position = 5

\* ------------------------------------------------------------------ C17
\* while the page is open its list is in position order and the Sign modal is shut
PageListSorted ==
    Shown =>
        /\ FieldsOf(contracts[contractOnPage])
              = sortByPosition(FieldsOf(contracts[contractOnPage]))
        /\ ~page.showSignModal
        /\ page.modalSignature = Null


OnPage(status) == Shown /\ contracts[contractOnPage].status = status

\* the contract is revoked or deleted, or the page is left
Abandoned == ~Shown \/ OnPage("REVOKED")

\* C17: with the actions the page offers a contract goes through the whole
\* lifecycle: for whoever keeps taking it forward and neither leaves the page
\* nor revokes or deletes it, a SENT contract becomes SIGNED and a SIGNED
\* contract becomes LOCKED.
C17_PageDrivesLifecycle ==
    /\ OnPage("SENT") ~> (OnPage("SIGNED") \/ Abandoned)
    /\ OnPage("SIGNED") ~> (OnPage("LOCKED") \/ Abandoned)

\* what the page does do for a signed contract
PageLocksSigned == OnPage("SIGNED") ~> (OnPage("LOCKED") \/ Abandoned)

\* while the page shows a contract it leaves SENT for REVOKED only
PageNeverSigns ==
    (Shown /\ page'.id = page.id /\ contracts[contractOnPage].status = "SENT")
        => contracts'[contractOnPage].status \in {"SENT", "REVOKED"}

SentStaysSentOnPage == [][PageNeverSigns]_vars

\* ------------------------------------------------------------------ C20
\* the statuses and editable-by designations under which a field may be filled in
MayFill(status, field) ==
    \/ status = "CREATED" /\ field.editableBy \in {"manager", "both", Undefined}
    \/ status = "SENT" /\ field.editableBy \in {"client", "both"}

PageEditsAsDesignated ==
    /\ (Shown /\ page'.id = page.id /\ Stays(page.id)) =>
          LET old == FieldsBefore(page.id)
              new == FieldsAfter(page.id)
          IN  \A k \in 1..Len(old), m \in 1..Len(new) :
                  (new[m].id = old[k].id /\ new[m].value # old[k].value)
                      => MayFill(Before(page.id).status, old[k])
    /\ page.id = 0 =>
          \A i \in 1..Len(contracts) :
              contracts[i].status \in Editable =>
                  \A fields \in ContractFieldLists(FieldsOf(contracts[i])) :
                      \/ ret' = "ok" /\ FieldsAfter(contracts[i].id) = fields
                      \/ ~updateContractFields(contracts[i].id, fields)

\* C20: while ContractView shows a contract, a field's value changes only if
\* the status is CREATED and the field is for the manager, for both or for
\* nobody in particular, or the status is SENT and the field is for the client
\* or for both; updateContractFields called directly writes any field in
\* either status.
C20_EditableByOnPage == [][PageEditsAsDesignated]_vars

\* never approved: the client's field was written by a direct call, the
\* manager's was typed into on the page
C20_Witness ==
    /\ OnPage("CREATED")
    /\ progress[page.id] = 0
    /\ \E k, m \in 1..Len(FieldsOf(contracts[contractOnPage])) :
          LET fields == FieldsOf(contracts[contractOnPage]) IN
          /\ fields[k].editableBy = "client" /\ fields[k].value = "s:api"
          /\ fields[m].editableBy = "manager" /\ fields[m].value = "s:x"

\* ------------------------------------------------------------------ C21
\* the field lists the blueprint store holds, by blueprint
StoredLists == [b \in 1..Len(blueprints) |-> heap[blueprints[b].fields]]
StoredListsAfter == [b \in 1..Len(blueprints') |-> heap'[blueprints'[b].fields]]

CreateKeepsBlueprints ==
    \/ contracts' = contracts /\ heap' = heap /\ blueprints' = blueprints
    \/ \A name \in NameInputs, blueprintId \in 1..(MaxBlueprints + 1) :
          createContract(name, blueprintId) =>
              /\ blueprints' = blueprints
              /\ StoredListsAfter = StoredLists
              /\ ret' = "ok" =>
                    \A b \in 1..Len(blueprints') :
                        contracts'[Len(contracts')].fields # blueprints'[b].fields

\* the half of it that is about containers
CreateSharesNoContainer ==
    \A name \in NameInputs, blueprintId \in 1..(MaxBlueprints + 1) :
        (ret' = "ok" /\ createContract(name, blueprintId)) =>
            \A b \in 1..Len(blueprints') :
                contracts'[Len(contracts')].fields # blueprints'[b].fields

NewContractOwnsItsList == [][CreateSharesNoContainer]_vars

\* C21: createContract leaves the blueprint store as it was: after the call,
\* successful or not, every blueprint's stored field list has the same elements
\* in the same stored order as before, also when that order was not ascending
\* by position, and the new contract's list is in no container a blueprint has.
C21_CreateContractKeepsBlueprints == [][CreateKeepsBlueprints]_vars

\* ------------------------------------------------ the store, call by call
\* a call made on its own does to the store what it does inside a handler
CallsAgree ==
    \/ contracts' = contracts /\ heap' = heap /\ ret' = ret /\ progress' = progress
    \/ /\ \A i \in 1..Len(contracts), newStatus \in Status :
             transitionStatus(contracts[i].id, newStatus)
                 => becomes(transitionStatusIn(storeNow, contracts[i].id, newStatus))
       /\ \A i \in 1..Len(contracts) :
             \A fields \in ContractFieldLists(FieldsOf(contracts[i])) :
                 updateContractFields(contracts[i].id, fields)
                     => becomes(updateContractFieldsIn(storeNow, contracts[i].id, fields))

StoreCallsAgree == [][CallsAgree]_vars

\* ------------------------------------------------------------------ C22
\* a field list without its values
Structure(fields) == [k \in 1..Len(fields) |-> [fields[k] EXCEPT !.value = Null]]

\* the indices at which two lists of one structure differ
Differing(old, new) == { k \in 1..Len(old) : new[k] # old[k] }

KeepsStructure(old, new) ==
    /\ Structure(new) = Structure(old)
    /\ Cardinality(Differing(old, new)) <= 1

\* the lists the page's two handlers would hand over, whatever is typed or drawn
PageCallsKeepStructure ==
    Shown =>
        LET fields == FieldsOf(contracts[contractOnPage]) IN
        /\ \A k \in 1..Len(fields) :
              \A value \in Typed(fields[k]) :
                  KeepsStructure(fields, changedFields(fields, fields[k].id, value))
        /\ findSignature(fields) # 0 =>
              KeepsStructure(fields, signedFields(fields, "s:modal"))

\* every contract has the structure createContract would give it now; no
\* blueprint is edited in these runs
StructureIsTheSnapshot ==
    \A i \in 1..Len(contracts) :
        LET b == getBlueprint(contracts[i].blueprintId) IN
        b # 0 => Structure(FieldsOf(contracts[i])) = Structure(snapshot(blueprints[b]))

\* what a step of the page does to the list of its contract
PageEditsOneValue ==
    (Shown /\ Stays(page.id)) => KeepsStructure(FieldsBefore(page.id), FieldsAfter(page.id))

\* C22: the lists ContractView hands to updateContractFields
\* (handleFieldChange, handleSignContract) have the length, order, ids, types,
\* labels, positions, required flags and editable-by designations of the
\* contract's current list and differ from it in at most one value; so a
\* contract edited on the page only keeps, in every state, the structure it
\* was given at creation.
C22_PageKeepsStructure ==
    [](PageCallsKeepStructure /\ StructureIsTheSnapshot) /\ [][PageEditsOneValue]_vars

\* the name was typed into the field, the signature came from the modal
C22_Witness ==
    /\ OnPage("SIGNED")
    /\ LET fields == FieldsOf(contracts[contractOnPage]) IN
       /\ Len(fields) = 2
       /\ fields[1].id = "f1" /\ fields[1].value = "s:x"
       /\ fields[2].id = "f2" /\ fields[2].value = "s:modal"

\* ------------------------------------------------------------------ C23
\* the success messages that say a contract now has this status
Reports(status) ==
    { toastOf(toastMessages[status], <<>>) }
        \cup (IF status = "SENT"
              THEN { toastOf("Email sent to (simulated).", address) : address \in Addresses }
              ELSE {})
        \cup (IF status = "SIGNED"
              THEN { toastOf("Client signature recorded.", <<>>) }
              ELSE {})

\* a handler of the page has just put a message on the screen
Toasting == ConfirmTransition \/ SubmitSend

ToastsAreTrue ==
    \/ ret' = "ok"
          /\ indexOf(contracts', page'.id) # 0
          /\ page'.toast \in Reports(contracts'[indexOf(contracts', page'.id)].status)
    \/ ~Toasting

\* C23: a success message of ContractView about a status change (approved,
\* sent with the simulated email, locked, revoked, signature recorded) is on
\* the screen only when the transitionStatus call behind it returned true and
\* the contract has that status now, in whatever order the Send and the
\* Confirm Action modals are opened and confirmed.
C23_ToastsAreTrue == [][ToastsAreTrue]_vars

\* ------------------------------------------------------------------ C24
\* the step has written a signature into the page's contract
SignatureWritten ==
    \E k \in 1..Len(FieldsBefore(page.id)) :
        /\ k <= Len(FieldsAfter(page.id))
        /\ FieldsAfter(page.id)[k].type = "SIGNATURE"
        /\ FieldsAfter(page.id)[k].value # FieldsBefore(page.id)[k].value

SigningIsWhole ==
    \/ ~SubmitSign
    \/ SignatureWritten => After(page.id).status = "SIGNED"

SentSigningIsWhole ==
    \/ ~SubmitSign
    \/ Before(page.id).status # "SENT"
    \/ /\ After(page.id).status = "SIGNED"
       /\ ret' = "ok"
       /\ LET k == findSignature(FieldsBefore(page.id)) IN
          k # 0 => FieldsAfter(page.id)[k].value = page.modalSignature

SigningASentContract == [][SentSigningIsWhole]_vars

\* ------------------------------------------------------------------ C25
\* From the step that makes a contract APPROVED to the step that makes it
\* SENT the contract is APPROVED throughout, so the two lists are the same if
\* no step taken in APPROVED changes the list.
ApprovedListIsKept ==
    \/ contracts' = contracts /\ heap' = heap
    \/ \A i \in 1..Len(contracts) :
          LET id == contracts[i].id IN
          Stays(id) =>
              /\ Before(id).status = "APPROVED" => FieldsAfter(id) = FieldsBefore(id)
              /\ (After(id).status = "SENT" /\ Before(id).status # "SENT")
                    => Before(id).status = "APPROVED"
              /\ (After(id).status = "APPROVED" /\ Before(id).status # "APPROVED")
                    => Before(id).status = "CREATED"

EditOfApprovedFails ==
    \/ contracts' = contracts /\ heap' = heap /\ ret' = "fail"
    \/ \A i \in 1..Len(contracts) :
          contracts[i].status = "APPROVED" =>
              \A fields \in ContractFieldLists(FieldsOf(contracts[i])) :
                  ~updateContractFields(contracts[i].id, fields)

\* C25: what is sent is what was approved: when a contract becomes SENT its
\* field list is the list it had when it last became APPROVED; no
\* updateContractFields succeeds on an APPROVED contract, and after the revert
\* APPROVED -> CREATED the contract has to be approved again before it is sent.
C25_SentIsWhatWasApproved == [][ApprovedListIsKept]_vars /\ [][EditOfApprovedFails]_vars

\* both fields were filled in, and the contract was approved and sent
C25_Witness ==
    \E i \in 1..Len(contracts) :
        /\ contracts[i].status = "SENT"
        /\ progress[contracts[i].id] = 2
        /\ Len(FieldsOf(contracts[i])) = 2
        /\ FieldsOf(contracts[i])[1].value = "s:x"
        /\ FieldsOf(contracts[i])[2].value = "s:sig"

\* ------------------------------------------------------------------ C26
\* the ways a contract goes from the result of one filter to that of another
BucketMoves ==
    { <<"active", "pending">>, <<"pending", "signed">>,
      <<"active", "archived">>, <<"pending", "archived">> }

BucketsAreOneWay ==
    \/ contracts' = contracts
    \/ \A id \in { contracts[i].id : i \in 1..Len(contracts) } :
          LET old == FiltersShowing(id)
              new == FiltersShowing(id)'
          IN  Stays(id) =>
                  /\ \/ new = old
                     \/ \E move \in BucketMoves : old = {move[1]} /\ new = {move[2]}
                  /\ (old = {"signed"} \/ old = {"archived"}) => new = old

\* C26: a contract's place in the results of getContractsByFilter changes
\* only from Active to Pending, from Pending to Signed, and from Active or
\* Pending to Archived; a contract returned for Signed or for Archived is
\* returned for no other filter afterwards, for as long as it exists.
C26_BucketsOneWay == [][BucketsAreOneWay]_vars

\* one contract was sent and then revoked, the other went on to be locked
C26_Witness ==
    /\ Len(contracts) = 2
    /\ contracts[1].status = "REVOKED"
    /\ progress[contracts[1].id] = 2
    /\ FiltersShowing(contracts[1].id) = {"archived"}
    /\ contracts[2].status = "LOCKED"
    /\ FiltersShowing(contracts[2].id) = {"signed"}

====
